---- MODULE Spec2Model ----
(***************************************************************************)
(* The manual trace-context propagation plugin (server/plugins/            *)
(* tracecontext.ts, kept here as src/unnamed/part_000): the path           *)
(* normalisation configured at module load, and the four Nitro hooks       *)
(* (request, beforeResponse, error, afterResponse) that create, annotate   *)
(* and end one span per request.                                           *)
(*                                                                         *)
(* Strings are tuples of one-character strings, so that split, replace and *)
(* parseInt are computed character by character as the JavaScript does.    *)
(* JavaScript's undefined is the value Undefined, NaN is the value NaN.    *)
(***************************************************************************)
EXTENDS Integers, Sequences, FiniteSets, TLC

\* undefined is a one-element tuple holding a long string, so that it differs from
\* every string of the model (tuples of one-character strings) and compares with them.
Undefined == <<"undefined">>
\* parseInt's NaN; every number parseInt returns is >= 0 here.
NaN == -1

\* ------------------------------------------------------------ strings

HexLowerDigits == <<"0", "1", "2", "3", "4", "5", "6", "7", "8", "9", "a", "b", "c", "d", "e", "f">>
HexUpperDigits == <<"0", "1", "2", "3", "4", "5", "6", "7", "8", "9", "A", "B", "C", "D", "E", "F">>

Range(s) == {s[i] : i \in DOMAIN s}

IsHexChar(c) == c \in Range(HexLowerDigits) \cup Range(HexUpperDigits)

HexValue(c) ==
  IF c \in Range(HexLowerDigits)
    THEN (CHOOSE i \in DOMAIN HexLowerDigits : HexLowerDigits[i] = c) - 1
    ELSE (CHOOSE i \in DOMAIN HexUpperDigits : HexUpperDigits[i] = c) - 1

StartsWithAt(s, i, p) ==
  /\ i + Len(p) - 1 <= Len(s)
  /\ \A k \in 1..Len(p) : s[i + k - 1] = p[k]

\* String.prototype.indexOf: the first position (1-based) of p in s, 0 when none.
IndexOf(s, p) ==
  LET hits == {i \in 1..(Len(s) + 1) : StartsWithAt(s, i, p)}
  IN IF hits = {} THEN 0 ELSE CHOOSE i \in hits : \A j \in hits : i <= j

\* String.prototype.split with a one-character separator.
RECURSIVE Split(_, _)
Split(s, sep) ==
  LET i == IndexOf(s, <<sep>>)
  IN IF i = 0 THEN <<s>>
     ELSE <<SubSeq(s, 1, i - 1)>> \o Split(SubSeq(s, i + 1, Len(s)), sep)

RECURSIVE Join(_, _)
Join(parts, sep) ==
  IF Len(parts) = 0 THEN <<>>
  ELSE IF Len(parts) = 1 THEN parts[1]
  ELSE parts[1] \o <<sep>> \o Join(Tail(parts), sep)

RECURSIVE HexPrefixValue(_, _)
HexPrefixValue(s, acc) ==
  IF s = <<>> \/ ~IsHexChar(Head(s)) THEN acc
  ELSE HexPrefixValue(Tail(s), acc * 16 + HexValue(Head(s)))

DecimalDigits == {"0", "1", "2", "3", "4", "5", "6", "7", "8", "9"}

RECURSIVE DecimalPrefixValue(_, _)
DecimalPrefixValue(s, acc) ==
  IF s = <<>> \/ Head(s) \notin DecimalDigits THEN acc
  ELSE DecimalPrefixValue(Tail(s), acc * 10 + HexValue(Head(s)))

\* Mutant of parseInt16: the radix argument left out, parseInt(s).
parseIntDecimal(s) ==
  IF s = Undefined \/ s = <<>> \/ Head(s) \notin DecimalDigits THEN NaN
  ELSE DecimalPrefixValue(s, 0)

\* parseInt(s, 16): an optional 0x/0X prefix, then the longest run of hex digits
\* (either case); NaN when that run is empty. undefined is converted to the
\* string "undefined", which has no leading hex digit. The flags fields of the
\* model hold at most three digits, so the value is exact.
parseInt16(s) ==
  LET body == IF Len(s) >= 2 /\ s[1] = "0" /\ s[2] \in {"x", "X"}
                THEN SubSeq(s, 3, Len(s)) ELSE s
  IN IF s = Undefined \/ body = <<>> \/ ~IsHexChar(Head(body)) THEN NaN
     ELSE HexPrefixValue(body, 0)

\* ------------------------------------------------------------ sample values

TraceIdA == <<"9", "0", "9", "3", "4", "5", "e", "9", "8", "5", "c", "b", "1", "d", "6", "4", "c", "a", "b", "2", "2", "3", "1", "a", "9", "f", "d", "2", "4", "5", "9", "d">>
TraceIdB == <<"0", "a", "f", "7", "6", "5", "1", "9", "1", "6", "c", "d", "4", "3", "d", "d", "8", "4", "4", "8", "e", "b", "2", "1", "1", "c", "8", "0", "3", "1", "9", "c">>
TraceIdUpper == <<"9", "0", "9", "3", "4", "5", "E", "9", "8", "5", "C", "B", "1", "D", "6", "4", "C", "A", "B", "2", "2", "3", "1", "A", "9", "F", "D", "2", "4", "5", "9", "D">>
TraceIdZero == <<"0", "0", "0", "0", "0", "0", "0", "0", "0", "0", "0", "0", "0", "0", "0", "0", "0", "0", "0", "0", "0", "0", "0", "0", "0", "0", "0", "0", "0", "0", "0", "0">>
TraceIdShort == <<"9", "0", "9", "3", "4", "5", "e", "9", "8", "5", "c", "b", "1", "d", "6", "4">>
TraceIdNonHex == <<"z", "0", "9", "3", "4", "5", "e", "9", "8", "5", "c", "b", "1", "d", "6", "4", "c", "a", "b", "2", "2", "3", "1", "a", "9", "f", "d", "2", "4", "5", "9", "d">>
SpanIdA == <<"f", "a", "5", "8", "3", "3", "9", "0", "d", "c", "4", "a", "5", "7", "f", "0">>
SpanIdB == <<"b", "7", "a", "d", "6", "b", "7", "1", "6", "9", "2", "0", "3", "3", "3", "1">>
SpanIdShort == <<"f", "a", "5", "8", "3", "3", "9", "0">>
SpanIdNonHex == <<"g", "a", "5", "8", "3", "3", "9", "0", "d", "c", "4", "a", "5", "7", "f", "0">>
PathEn == <<"/", "e", "n", "/", "a", "p", "i", "/", "h", "a", "s", "h">>
PathEs == <<"/", "e", "s", "/", "a", "p", "i", "/", "h", "a", "s", "h">>
PathHash == <<"/", "a", "p", "i", "/", "h", "a", "s", "h">>
PathDe == <<"/", "d", "e", "/", "a", "p", "i", "/", "h", "a", "s", "h">>
PathFr == <<"/", "f", "r", "/", "a", "p", "i", "/", "h", "a", "s", "h">>
PathLocale == <<"/", ":", "l", "o", "c", "a", "l", "e", "/", "a", "p", "i", "/", "h", "a", "s", "h">>
PathInternal == <<"/", "a", "p", "i", "/", "i", "n", "t", "e", "r", "n", "a", "l", "/", "u", "s", "e", "r", "s">>
LocalePattern == <<"^", "/", "(", "e", "n", "|", "d", "e", "|", "f", "r", ")", "/">>
LocaleReplacement == <<"/", ":", "l", "o", "c", "a", "l", "e", "/">>
InternalPattern == <<"/", "a", "p", "i", "/", "i", "n", "t", "e", "r", "n", "a", "l", "/">>
InternalReplacement == <<"/", "a", "p", "i", "/">>
PathUsers == <<"/", "a", "p", "i", "/", "u", "s", "e", "r", "s">>
GroupPattern == <<"/", "(", "e", "n", "|", "d", "e", "|", "f", "r", ")", "/">>
\* Paths in which a rule's pattern occurs twice.
PathTwoLocales == <<"/", "e", "n", "/", "a", "p", "i", "/", "d", "e", "/", "h", "a", "s", "h">>
PathTwoInternal == <<"/", "a", "p", "i", "/", "i", "n", "t", "e", "r", "n", "a", "l", "/", "v", "1", "/", "a", "p", "i", "/", "i", "n", "t", "e", "r", "n", "a", "l", "/", "u", "s", "e", "r", "s">>

\* ------------------------------------------------------------ PathReplace

RegexSpecialChars == {".", "*", "+", "?", "^", "$", "{", "}", "(", ")", "|", "[", "]", "\\"}

\* Mutant of LooksLikeRegex: the test for special characters left out.
LooksLikeRegexAnchoredOnly(pattern) == Len(pattern) >= 1 /\ pattern[1] = "^"

\* pattern.startsWith('^') || /[.*+?^${}()|[\]\\]/.test(pattern)
LooksLikeRegex(pattern) ==
  \/ (Len(pattern) >= 1 /\ pattern[1] = "^")
  \/ \E i \in DOMAIN pattern : pattern[i] \in RegexSpecialChars

\* The value of pathReplacePattern: null, a string, or a RegExp object with its
\* mutable lastIndex property.
NullPattern ==
  [kind |-> "null", text |-> <<>>, anchored |-> FALSE, alts |-> <<>>, lastIndex |-> 0]
StringPattern(p) ==
  [kind |-> "string", text |-> p, anchored |-> FALSE, alts |-> <<>>, lastIndex |-> 0]

\* new RegExp(pattern) for the patterns of the model: an optional leading ^, then
\* literal characters around at most one group of alternatives (a|b|c). The
\* compiled form lists, in order, the literal strings the pattern matches.
\* ok is FALSE where the constructor throws a SyntaxError (unbalanced parentheses).
CompileRegExp(pattern) ==
  LET anchored == Len(pattern) >= 1 /\ pattern[1] = "^"
      body == IF anchored THEN Tail(pattern) ELSE pattern
      open == IndexOf(body, <<"(">>)
      close == IndexOf(body, <<")">>)
      prefix == SubSeq(body, 1, open - 1)
      inner == SubSeq(body, open + 1, close - 1)
      suffix == SubSeq(body, close + 1, Len(body))
      choices == Split(inner, "|")
  IN IF open = 0 /\ close = 0
       THEN [ok |-> TRUE,
             re |-> [kind |-> "RegExp", text |-> pattern, anchored |-> anchored,
                     alts |-> <<body>>, lastIndex |-> 0]]
     ELSE IF open = 0 \/ close < open
       THEN [ok |-> FALSE, re |-> NullPattern]
     ELSE [ok |-> TRUE,
           re |-> [kind |-> "RegExp", text |-> pattern, anchored |-> anchored,
                   alts |-> [k \in DOMAIN choices |-> prefix \o choices[k] \o suffix],
                   lastIndex |-> 0]]

\* Mutant of LoadPathReplace: parsed.length >= 2 for parsed.length === 2.
LoadPathReplaceAtLeastTwo(config) ==
  LET none == [pattern |-> NullPattern, replacement |-> Undefined]
  IN IF config.kind # "array" \/ Len(config.items) < 2 THEN none
     ELSE LET pattern == config.items[1]
              replacement == config.items[2]
          IN IF LooksLikeRegex(pattern)
               THEN IF CompileRegExp(pattern).ok
                      THEN [pattern |-> CompileRegExp(pattern).re, replacement |-> replacement]
                      ELSE none
               ELSE [pattern |-> StringPattern(pattern), replacement |-> replacement]

\* The try block at module load. config is the environment value:
\*   kind "unset"   - the variable is not set, or is the empty string
\*   kind "invalid" - JSON.parse throws
\*   kind "other"   - valid JSON that is not an array
\*   kind "array"   - a JSON array of strings, items
\* The result is the pair of module-level variables after the block.
LoadPathReplace(config) ==
  LET none == [pattern |-> NullPattern, replacement |-> Undefined]
  IN IF config.kind # "array" \/ Len(config.items) # 2 THEN none
     ELSE LET pattern == config.items[1]
              replacement == config.items[2]
          IN IF LooksLikeRegex(pattern)
               THEN IF CompileRegExp(pattern).ok
                      THEN [pattern |-> CompileRegExp(pattern).re, replacement |-> replacement]
                      ELSE none
               ELSE [pattern |-> StringPattern(pattern), replacement |-> replacement]

\* Whether the try block at module load throws: JSON.parse on invalid JSON, or
\* new RegExp on a pattern that does not compile.
LoadThrows(config) ==
  \/ config.kind = "invalid"
  \/ /\ config.kind = "array" /\ Len(config.items) = 2
     /\ LooksLikeRegex(config.items[1])
     /\ ~CompileRegExp(config.items[1]).ok

\* Mutant of ReplaceString: replaceAll, every occurrence substituted.
RECURSIVE ReplaceStringAll(_, _, _)
ReplaceStringAll(path, p, replacement) ==
  LET i == IndexOf(path, p)
  IN IF i = 0 THEN path
     ELSE SubSeq(path, 1, i - 1) \o replacement
            \o ReplaceStringAll(SubSeq(path, i + Len(p), Len(path)), p, replacement)

\* String.prototype.replace with a string pattern: the first occurrence only.
ReplaceString(path, p, replacement) ==
  LET i == IndexOf(path, p)
  IN IF i = 0 THEN path
     ELSE SubSeq(path, 1, i - 1) \o replacement \o SubSeq(path, i + Len(p), Len(path))

\* Mutant of RegExpMatch: only the first alternative of the group is tried.
RegExpMatchFirstAlternative(path, re) ==
  LET positions == IF re.anchored THEN {1} ELSE 1..(Len(path) + 1)
      hits == {i \in positions : StartsWithAt(path, i, re.alts[1])}
      at == CHOOSE i \in hits : \A j \in hits : i <= j
  IN IF hits = {} THEN [at |-> 0, len |-> 0]
     ELSE [at |-> at, len |-> Len(re.alts[1])]

\* The match of a compiled pattern in path: the leftmost position, and there the
\* first alternative that matches; at = 0 when there is no match.
RegExpMatch(path, re) ==
  LET positions == IF re.anchored THEN {1} ELSE 1..(Len(path) + 1)
      hits == {i \in positions : \E k \in DOMAIN re.alts : StartsWithAt(path, i, re.alts[k])}
      at == CHOOSE i \in hits : \A j \in hits : i <= j
      ks == {k \in DOMAIN re.alts : StartsWithAt(path, at, re.alts[k])}
      first == CHOOSE k \in ks : \A j \in ks : k <= j
  IN IF hits = {} THEN [at |-> 0, len |-> 0]
     ELSE [at |-> at, len |-> Len(re.alts[first])]

\* String.prototype.replace with a RegExp without the g flag: the first match only.
ReplaceRegExp(path, re, replacement) ==
  LET m == RegExpMatch(path, re)
  IN IF m.at = 0 THEN path
     ELSE SubSeq(path, 1, m.at - 1) \o replacement \o SubSeq(path, m.at + m.len, Len(path))

\* Mutant of PatternAfterReplace: the RegExp built with the g flag and tried
\* with test() before the replace, which leaves lastIndex behind the match.
PatternAfterReplaceGlobal(pattern, path) ==
  IF pattern.kind = "RegExp" /\ RegExpMatch(path, pattern).at # 0
    THEN [pattern EXCEPT !.lastIndex =
            RegExpMatch(path, pattern).at + RegExpMatch(path, pattern).len - 1]
    ELSE pattern

\* pathReplacePattern after path.replace(pathReplacePattern, ...): replace
\* changes neither a string nor a RegExp without the g or y flag.
PatternAfterReplace(pattern, path) == pattern

\* Mutant of normalizePathWith: the guard compares with null, so that an empty
\* replacement deletes the match.
normalizePathWithNullChecks(pattern, replacement, path) ==
  IF pattern.kind = "null" \/ replacement = Undefined
    THEN path
  ELSE IF pattern.kind = "RegExp"
    THEN ReplaceRegExp(path, pattern, replacement)
  ELSE ReplaceString(path, pattern.text, replacement)

\* normalizePath, reading the two module-level variables. A null pattern, an
\* empty string pattern, a null replacement and an empty replacement are falsy.
normalizePathWith(pattern, replacement, path) ==
  IF \/ pattern.kind = "null"
     \/ (pattern.kind = "string" /\ pattern.text = <<>>)
     \/ replacement = Undefined
     \/ replacement = <<>>
    THEN path
  ELSE IF pattern.kind = "RegExp"
    THEN ReplaceRegExp(path, pattern, replacement)
  ELSE ReplaceString(path, pattern.text, replacement)

\* ------------------------------------------------------------ tracer and span handle
\* The tracer and the span handle are the @opentelemetry/api objects the plugin
\* calls. A span is a record; every call the plugin makes on it is appended to
\* its log, whether or not the call has an effect.

Method == <<"P", "O", "S", "T">>
Scheme == <<"h", "t", "t", "p">>
Generated == <<"generated">>

AllZero(s) == \A i \in DOMAIN s : s[i] = "0"
IsHexString(s, n) == Len(s) = n /\ \A i \in DOMAIN s : IsHexChar(s[i])

\* The tracer takes the trace id and the parent span id from the parent context
\* when that context is a valid span context (32 and 16 hex digits, not all
\* zero); otherwise it starts a new root span with a generated trace id.
isSpanContextValid(ctx) ==
  /\ ctx.traceId # Undefined /\ ctx.spanId # Undefined
  /\ IsHexString(ctx.traceId, 32) /\ ~AllZero(ctx.traceId)
  /\ IsHexString(ctx.spanId, 16) /\ ~AllZero(ctx.spanId)

NoAttributes ==
  [method |-> Undefined, urlPath |-> Undefined, httpRoute |-> Undefined,
   urlScheme |-> Undefined, xUserAgent |-> Undefined, xRequestTime |-> Undefined,
   xClientId |-> Undefined, statusCode |-> 0, contentType |-> Undefined,
   contentLength |-> Undefined, error |-> Undefined, errorType |-> Undefined]

\* Mutant of startSpan: the span comes back from the request hook already ended.
startSpanEnded(name, attributes, parentContext, owner) ==
  [name |-> name, kind |-> "SERVER", attributes |-> attributes,
   traceId |-> IF isSpanContextValid(parentContext)
                 THEN parentContext.traceId ELSE Generated,
   parentSpanId |-> IF isSpanContextValid(parentContext)
                      THEN parentContext.spanId ELSE Undefined,
   parentContext |-> parentContext,
   status |-> [code |-> "UNSET", message |-> Undefined],
   exceptions |-> <<>>, ended |-> TRUE, exported |-> 1,
   owner |-> owner, log |-> <<"end">>]

\* tracer.startSpan(name, {kind, attributes}, parentContext). owner is the
\* request whose hook made the call.
startSpan(name, attributes, parentContext, owner) ==
  [name |-> name, kind |-> "SERVER", attributes |-> attributes,
   traceId |-> IF isSpanContextValid(parentContext) THEN parentContext.traceId ELSE Generated,
   parentSpanId |-> IF isSpanContextValid(parentContext) THEN parentContext.spanId ELSE Undefined,
   parentContext |-> parentContext,
   status |-> [code |-> "UNSET", message |-> Undefined],
   exceptions |-> <<>>, ended |-> FALSE, exported |-> 0,
   owner |-> owner, log |-> <<>>]

\* span.setAttributes: an attribute whose value is undefined is not set; an
\* ended span ignores the call.
setAttributes(span, statusCode, contentType, contentLength) ==
  LET logged == [span EXCEPT !.log = Append(@, "setAttributes")]
  IN IF span.ended THEN logged
     ELSE [logged EXCEPT
             !.attributes.statusCode = statusCode,
             !.attributes.contentType =
                 IF contentType = Undefined THEN @ ELSE contentType,
             !.attributes.contentLength =
                 IF contentLength = Undefined THEN @ ELSE contentLength]

\* span.setStatus: an ended span ignores the call.
setStatus(span, code, message) ==
  LET logged == [span EXCEPT !.log = Append(@, "setStatus")]
  IN IF span.ended THEN logged
     ELSE [logged EXCEPT !.status = [code |-> code, message |-> message]]

\* span.recordException: an ended span ignores the call.
recordException(span, error) ==
  LET logged == [span EXCEPT !.log = Append(@, "recordException")]
  IN IF span.ended THEN logged
     ELSE [logged EXCEPT !.exceptions = Append(@, error.message)]

\* span.spanContext() reads the span and changes nothing.
spanContext(span) == [span EXCEPT !.log = Append(@, "spanContext")]

\* span.end(): the first call ends the span and hands it to the exporter once;
\* a call on an ended span does nothing.
end(span) ==
  LET logged == [span EXCEPT !.log = Append(@, "end")]
  IN IF span.ended THEN logged
     ELSE [logged EXCEPT !.ended = TRUE, !.exported = @ + 1]


\* ------------------------------------------------------------ inputs

Reqs == {"A", "B"}

\* How many beforeResponse and error callbacks one request may receive.
MaxCallbacks == 2

Version00 == <<"0", "0">>
Flags00 == <<"0", "0">>
Flags01 == <<"0", "1">>
FlagsFF == <<"f", "f">>
FlagsUpper == <<"0", "A">>
FlagsOneChar == <<"1">>
FlagsNonHex == <<"z", "z">>
FlagsLong == <<"0", "0", "1">>

TraceparentA == Join(<<Version00, TraceIdA, SpanIdA, Flags01>>, "-")
TraceparentB == Join(<<Version00, TraceIdB, SpanIdB, Flags00>>, "-")
TraceparentFF == Join(<<Version00, TraceIdB, SpanIdA, FlagsFF>>, "-")
TraceparentUpper == Join(<<Version00, TraceIdA, SpanIdB, FlagsUpper>>, "-")
ThreeParts == Join(<<Version00, TraceIdA, SpanIdA>>, "-")
FiveParts == Join(<<Version00, TraceIdA, SpanIdA, Flags01, Flags00>>, "-")

MalformedFields ==
  {<<Version00, TraceIdShort, SpanIdA, Flags01>>,
   <<Version00, TraceIdUpper, SpanIdA, Flags01>>,
   <<Version00, TraceIdNonHex, SpanIdA, Flags01>>,
   <<Version00, <<>>, SpanIdA, Flags01>>,
   <<Version00, TraceIdZero, SpanIdA, Flags01>>,
   <<Version00, TraceIdA, SpanIdShort, Flags01>>,
   <<Version00, TraceIdA, SpanIdNonHex, Flags01>>,
   <<Version00, TraceIdA, SpanIdA, FlagsOneChar>>,
   <<Version00, TraceIdA, SpanIdA, FlagsNonHex>>,
   <<Version00, TraceIdA, SpanIdA, FlagsLong>>}

WellFormedTraceparents == {TraceparentA, TraceparentB, TraceparentFF, TraceparentUpper}
MalformedTraceparents ==
  {ThreeParts, FiveParts, TraceIdA} \cup {Join(f, "-") : f \in MalformedFields}

UserAgent == <<"c", "u", "r", "l">>
ClientId == <<"n", "u", "x", "t">>
ClientTime == <<"t", "0">>
ServerTime == <<"t", "1">>

RequestOf(traceparent, path) ==
  [traceparent |-> traceparent, userAgent |-> UserAgent, xUserAgent |-> Undefined,
   xRequestTime |-> ClientTime, xClientId |-> ClientId, method |-> Method,
   path |-> path]

\* The requests of the lifecycle specification: without and with a traceparent.
LifecycleRequests == {RequestOf(t, PathEn) : t \in {Undefined, TraceparentA}}

\* The requests of the header specification: every sample header.
HeaderRequests ==
  {RequestOf(t, PathEn) :
     t \in {Undefined, <<>>} \cup WellFormedTraceparents \cup MalformedTraceparents}

\* The requests of the fault specification.
FaultRequests == {RequestOf(t, PathEn) : t \in {Undefined, TraceparentA, ThreeParts}}

\* The requests of the path specification: every sample path.
SamplePaths ==
  {PathEn, PathDe, PathFr, PathEs, PathHash, PathInternal, PathTwoLocales, PathTwoInternal}
PathRequests ==
  {RequestOf(TraceparentA, p) : p \in SamplePaths} \cup {RequestOf(Undefined, PathEn)}

UnsetConfig == [kind |-> "unset", items |-> <<>>]
LocaleConfig == [kind |-> "array", items |-> <<LocalePattern, LocaleReplacement>>]
InternalConfig == [kind |-> "array", items |-> <<InternalPattern, InternalReplacement>>]
LocaleRemovalConfig == [kind |-> "array", items |-> <<LocalePattern, <<"/">>>>]
EmptyReplacementConfig == [kind |-> "array", items |-> <<InternalPattern, <<>>>>]
GroupConfig == [kind |-> "array", items |-> <<GroupPattern, LocaleReplacement>>]
EmptyLocaleConfig == [kind |-> "array", items |-> <<LocalePattern, <<>>>>]
InvalidJsonConfig == [kind |-> "invalid", items |-> <<>>]
ObjectConfig == [kind |-> "other", items |-> <<>>]
OneItemConfig == [kind |-> "array", items |-> <<LocalePattern>>]
ThreeItemConfig ==
  [kind |-> "array", items |-> <<LocalePattern, LocaleReplacement, LocaleReplacement>>]
UncompilablePattern == <<"^", "/", "(", "e", "n", "/">>
UncompilableConfig == [kind |-> "array", items |-> <<UncompilablePattern, LocaleReplacement>>]

\* The values of the environment variable that configure no rule.
NoRuleConfigs ==
  {UnsetConfig, InvalidJsonConfig, ObjectConfig, OneItemConfig, ThreeItemConfig,
   UncompilableConfig}

\* The values of the environment variable in the path specification.
PathConfigs ==
  {UnsetConfig, LocaleConfig, InternalConfig, LocaleRemovalConfig, EmptyReplacementConfig,
   GroupConfig, EmptyLocaleConfig}

AppJson == <<"j", "s", "o", "n">>
BodyLength == <<"1", "7">>

\* event.node.res at beforeResponse time; statusCode 0 stands for an unset code.
Responses ==
  {[statusCode |-> 200, contentType |-> AppJson, contentLength |-> BodyLength],
   [statusCode |-> 0, contentType |-> Undefined, contentLength |-> Undefined],
   [statusCode |-> 399, contentType |-> AppJson, contentLength |-> Undefined],
   [statusCode |-> 400, contentType |-> AppJson, contentLength |-> BodyLength],
   [statusCode |-> 500, contentType |-> Undefined, contentLength |-> Undefined]}

Boom == <<"b", "o", "o", "m">>
Oops == <<"o", "o", "p", "s">>
Errors == {[message |-> Boom], [message |-> Oops]}

\* The tracer and span calls that may raise inside a hook.
FaultOps == {"none", "startSpan", "spanContext", "setAttributes", "setStatus",
             "recordException", "end"}

\* ------------------------------------------------------------ state

VARIABLES
  pathReplacePattern,      \* module-level variable, part_000 line 41
  pathReplaceReplacement,  \* module-level variable, part_000 line 42
  req,          \* req[r]: the inbound request r (headers, method, path)
  phase,        \* phase[r]: "new", "open" (request hook done), "done" (afterResponse
                \* done), "none" (r does not arrive in this run)
  ctxSpan,      \* ctxSpan[r]: event.context.span, an index into spans, 0 for undefined
  spans,        \* the spans the tracer has started, in order
  hist,         \* hist[r]: the callbacks delivered for r so far, oldest first
  last,         \* the callback delivered last, with its inputs
  rejected,     \* rejected[r]: some hook of r let a fault escape to the host
  hasIsEnded,   \* whether the tracer's span handles offer the optional isEnded()
  delivered,    \* the number of ended spans the exporter has delivered so far
  mayThrow      \* whether tracer and span calls may raise

vars == <<pathReplacePattern, pathReplaceReplacement, req, phase, ctxSpan, spans,
          hist, last, rejected, hasIsEnded, delivered, mayThrow>>

\* span.isEnded?.(): undefined (falsy) on a handle without the query.
isEndedQuery(span) == hasIsEnded /\ span.ended

normalizePath(path) == normalizePathWith(pathReplacePattern, pathReplaceReplacement, path)

SpansOf(r) == {i \in DOMAIN spans : spans[i].owner = r}

\* The ended spans handed to the span processor and not yet delivered.
Pending == Cardinality({i \in DOMAIN spans : spans[i].exported > 0}) - delivered

\* Mutant of HooksAwaitExport: the hooks await the delivery of the ended spans.
HooksAwaitExportAlways == TRUE

\* Whether a hook awaits the exporter before it completes: the hooks contain no
\* await, span.end() returns at once.
HooksAwaitExport == FALSE

\* The state of request r in the terms of the specification.
StateOf(r) ==
  IF SpansOf(r) = {} THEN "NoSpan"
  ELSE IF \E i \in SpansOf(r) : ~spans[i].ended THEN "Active"
  ELSE "Ended"

\* A delivered callback: the hook, the state it found, and whether a call in it raised.
Callback(hook, r, threw) == [hook |-> hook, before |-> StateOf(r), threw |-> threw]

\* The same with the request it was delivered for and the inputs it read.
Delivered(hook, r, statusCode, message, threw) ==
  [hook |-> hook, r |-> r, before |-> StateOf(r), slot |-> ctxSpan[r],
   statusCode |-> statusCode, message |-> message, threw |-> threw]

NoCallback ==
  [hook |-> "none", r |-> "none", before |-> "NoSpan", slot |-> 0,
   statusCode |-> 0, message |-> Undefined, threw |-> FALSE]

FaultChoices == IF mayThrow THEN FaultOps ELSE {"none"}

\* Mutant of TryCatch: the hook body without its try/catch.
TryCatchMissing(threw) == threw

\* try { ... } catch (error) { console.error(...) }: whether the hook's promise
\* rejects, given whether its try block threw.
TryCatch(threw) == FALSE

\* arriving are the requests of the run; the others never arrive (phase "none").
\* The hooks are registered, and requests served, unless module load let a
\* fault of its try block (line 44) escape its catch (line 60).
InitWith(configs, arriving, requests, throws) ==
  /\ \E config \in configs :
       /\ pathReplacePattern = LoadPathReplace(config).pattern
       /\ pathReplaceReplacement = LoadPathReplace(config).replacement
       /\ phase = [r \in Reqs |->
                    IF r \in arriving /\ ~TryCatch(LoadThrows(config))
                      THEN "new" ELSE "none"]
  /\ req \in [Reqs -> requests]
  /\ \A r \in Reqs \ arriving : req[r] = RequestOf(Undefined, PathEn)
  /\ ctxSpan = [r \in Reqs |-> 0]
  /\ spans = <<>>
  /\ hist = [r \in Reqs |-> <<>>]
  /\ last = NoCallback
  /\ rejected = [r \in Reqs |-> FALSE]
  /\ hasIsEnded \in BOOLEAN
  /\ delivered = 0
  /\ mayThrow = throws

Init == InitWith({UnsetConfig}, Reqs, LifecycleRequests, FALSE)

InitHeaders == InitWith({UnsetConfig, LocaleConfig}, {"A"}, HeaderRequests, FALSE)

InitFault == InitWith({UnsetConfig}, {"A"}, FaultRequests, TRUE)

InitPaths == InitWith(PathConfigs, {"A"}, PathRequests, FALSE)

InitNoRule == InitWith(NoRuleConfigs, {"A"}, PathRequests, FALSE)

InitRule == InitWith({LocaleConfig}, Reqs, {RequestOf(TraceparentA, PathEn)}, FALSE)

\* ------------------------------------------------------------ hooks

\* `${n}` for a number n >= 0.
RECURSIVE NumberToString(_)
NumberToString(n) ==
  IF n < 10 THEN <<HexLowerDigits[n + 1]>>
  ELSE NumberToString(n \div 10) \o <<HexLowerDigits[(n % 10) + 1]>>

HttpMessage(statusCode) == <<"H", "T", "T", "P", " ">> \o NumberToString(statusCode)

\* parts[k] of a JavaScript array (0-based k): undefined past its end.
At(parts, k) == IF k + 1 \in DOMAIN parts THEN parts[k + 1] ELSE Undefined

\* Mutant of RemoteSpanContext: the trace id and the parent span id swapped.
RemoteSpanContextSwapped(parts) ==
  [traceId |-> At(parts, 2), spanId |-> At(parts, 1),
   traceFlags |-> parseInt16(At(parts, 3)), isRemote |-> TRUE]

\* const [, incomingTraceId, parentSpanId, traceFlags] = parts, and the remote
\* span context built from them.
RemoteSpanContext(parts) ==
  [traceId |-> At(parts, 1), spanId |-> At(parts, 2),
   traceFlags |-> parseInt16(At(parts, 3)), isRemote |-> TRUE]

\* Mutant of PassesHeaderChecks: a span is started for every request.
PassesHeaderChecksAlways(traceparent) == TRUE

\* The two early returns of the request hook: if (!traceparent) return, and
\* if (parts.length !== 4) return. TRUE where the hook goes on to start a span.
PassesHeaderChecks(traceparent) ==
  /\ traceparent # Undefined
  /\ traceparent # <<>>
  /\ Len(Split(traceparent, "-")) = 4

\* Mutant of StartAttributes: url.path takes the normalized path.
StartAttributesNormalizedUrl(request, requestPath, normalizedPath) ==
  [NoAttributes EXCEPT
     !.method = request.method,
     !.urlPath = normalizedPath,
     !.httpRoute = normalizedPath,
     !.urlScheme = Scheme,
     !.xUserAgent = request.userAgent,
     !.xRequestTime = ServerTime,
     !.xClientId = request.xClientId]

\* The attributes option of the startSpan call.
StartAttributes(request, requestPath, normalizedPath) ==
  [NoAttributes EXCEPT
     !.method = request.method,
     !.urlPath = requestPath,
     !.httpRoute = normalizedPath,
     !.urlScheme = Scheme,
     !.xUserAgent = request.userAgent,
     !.xRequestTime = ServerTime,
     !.xClientId = request.xClientId]

\* The request hook's try block up to the call of startSpan: the span to start,
\* or create = FALSE where the hook returns early.
RequestPlan(request, owner) ==
  LET traceparent == request.traceparent
      parts == IF traceparent = Undefined THEN <<>> ELSE Split(traceparent, "-")
      remoteSpanContext == RemoteSpanContext(parts)
      requestPath == IF request.path = Undefined \/ request.path = <<>>
                       THEN <<"/">> ELSE request.path
      normalizedPath == normalizePath(requestPath)
      attributes == StartAttributes(request, requestPath, normalizedPath)
  IN IF ~PassesHeaderChecks(traceparent)
       THEN [create |-> FALSE]
       ELSE [create |-> TRUE,
             span |-> startSpan(request.method \o <<" ">> \o normalizedPath,
                                attributes, remoteSpanContext, owner)]

\* Mutant of Instrumentations: the automatic instrumentation left enabled.
InstrumentationsWithNitro == {"NitroInstrumentation"}

\* instrumentations: [] of the NodeSDK options
Instrumentations == {}

\* The spans an enabled NitroInstrumentation starts for a request on its own:
\* one root span, which ignores the traceparent header.
InstrumentationSpans(request, owner) ==
  IF "NitroInstrumentation" \in Instrumentations
    THEN <<startSpan(request.method \o <<" ">> \o request.path, NoAttributes,
                     [traceId |-> Undefined, spanId |-> Undefined, traceFlags |-> 0,
                      isRemote |-> FALSE], owner)>>
    ELSE <<>>

\* Mutant of StoreSpan: the span kept in one variable of the plugin module,
\* shared by all requests.
StoreSpanShared(slots, r, i) == [q \in DOMAIN slots |-> i]

\* event.context.span = span: the slot of this request's event
StoreSpan(slots, r, i) == [slots EXCEPT ![r] = i]

\* nitroApp.hooks.hook('request', ...)
Request(r) ==
  /\ phase[r] = "new"
  /\ \E f \in FaultChoices :
       LET plan == RequestPlan(req[r], r)
           started == plan.create /\ f # "startSpan"
           stored == started /\ f # "spanContext"
           threw == plan.create /\ f \in {"startSpan", "spanContext"}
           base == spans \o InstrumentationSpans(req[r], r)
       IN /\ spans' = IF started THEN Append(base, spanContext(plan.span)) ELSE base
          /\ ctxSpan' = IF stored THEN StoreSpan(ctxSpan, r, Len(base) + 1) ELSE ctxSpan
          /\ rejected' = [rejected EXCEPT ![r] = @ \/ TryCatch(threw)]
          /\ hist' = [hist EXCEPT ![r] = Append(@, Callback("request", r, threw))]
          /\ last' = Delivered("request", r, 0, Undefined, threw)
  /\ pathReplacePattern' =
       IF RequestPlan(req[r], r).create
         THEN PatternAfterReplace(pathReplacePattern, req[r].path)
         ELSE pathReplacePattern
  /\ phase' = [phase EXCEPT ![r] = "open"]
  /\ UNCHANGED <<pathReplaceReplacement, req, hasIsEnded, delivered, mayThrow>>

\* Mutant of IsErrorStatus: > for >=.
IsErrorStatusAbove(statusCode) == statusCode > 400

\* if (statusCode >= 400)
IsErrorStatus(statusCode) == statusCode >= 400

\* Mutants of BeforeResponseBody: span.end() left out; span.end() called first.
BeforeResponseBodyUnended(span, response, f) ==
  LET statusCode == IF response.statusCode = 0 THEN 200 ELSE response.statusCode
      s1 == setAttributes(span, statusCode, response.contentType, response.contentLength)
      s2 == IF IsErrorStatus(statusCode)
              THEN setStatus(s1, "ERROR", HttpMessage(statusCode))
              ELSE setStatus(s1, "OK", Undefined)
      s3 == spanContext(s2)
  IN IF f = "setAttributes" THEN [span |-> span, threw |-> TRUE]
     ELSE IF f = "setStatus" THEN [span |-> s1, threw |-> TRUE]
     ELSE IF f = "spanContext" THEN [span |-> s2, threw |-> TRUE]
     ELSE [span |-> s3, threw |-> FALSE]
BeforeResponseBodyEndFirst(span, response, f) ==
  LET statusCode == IF response.statusCode = 0 THEN 200 ELSE response.statusCode
      s0 == end(span)
      s1 == setAttributes(s0, statusCode, response.contentType, response.contentLength)
      s2 == IF IsErrorStatus(statusCode)
              THEN setStatus(s1, "ERROR", HttpMessage(statusCode))
              ELSE setStatus(s1, "OK", Undefined)
      s3 == spanContext(s2)
  IN IF f = "end" THEN [span |-> span, threw |-> TRUE]
     ELSE IF f = "setAttributes" THEN [span |-> s0, threw |-> TRUE]
     ELSE IF f = "setStatus" THEN [span |-> s1, threw |-> TRUE]
     ELSE IF f = "spanContext" THEN [span |-> s2, threw |-> TRUE]
     ELSE [span |-> s3, threw |-> FALSE]

\* Mutant of BeforeResponseBody: the status code used without its || 200
\* default.
BeforeResponseBodyNoDefault(span, response, f) ==
  LET statusCode == response.statusCode
      s1 == setAttributes(span, statusCode, response.contentType, response.contentLength)
      s2 == IF IsErrorStatus(statusCode)
              THEN setStatus(s1, "ERROR", HttpMessage(statusCode))
              ELSE setStatus(s1, "OK", Undefined)
      s3 == spanContext(s2)
      s4 == end(s3)
  IN IF f = "setAttributes" THEN [span |-> span, threw |-> TRUE]
     ELSE IF f = "setStatus" THEN [span |-> s1, threw |-> TRUE]
     ELSE IF f = "spanContext" THEN [span |-> s2, threw |-> TRUE]
     ELSE IF f = "end" THEN [span |-> s3, threw |-> TRUE]
     ELSE [span |-> s4, threw |-> FALSE]

\* The beforeResponse hook's try block from the first span mutation on.
BeforeResponseBody(span, response, f) ==
  LET statusCode == IF response.statusCode = 0 THEN 200 ELSE response.statusCode
      s1 == setAttributes(span, statusCode, response.contentType, response.contentLength)
      s2 == IF IsErrorStatus(statusCode)
              THEN setStatus(s1, "ERROR", HttpMessage(statusCode))
              ELSE setStatus(s1, "OK", Undefined)
      s3 == spanContext(s2)
      s4 == end(s3)
  IN IF f = "setAttributes" THEN [span |-> span, threw |-> TRUE]
     ELSE IF f = "setStatus" THEN [span |-> s1, threw |-> TRUE]
     ELSE IF f = "spanContext" THEN [span |-> s2, threw |-> TRUE]
     ELSE IF f = "end" THEN [span |-> s3, threw |-> TRUE]
     ELSE [span |-> s4, threw |-> FALSE]

\* if (!span) return; if (span.isEnded?.()) return
HookSkips(i) == i = 0 \/ isEndedQuery(spans[i])

\* Mutant of SlotAfterFinalize: the hook that ends the span also deletes
\* event.context.span.
SlotAfterFinalizeCleared(i) == 0

\* event.context.span after the beforeResponse hook or the error hook: both read
\* the slot into a local (lines 163, 201) and hold no assignment to it and no
\* delete of it, on any path through their try block.
SlotAfterFinalize(i) == i

\* nitroApp.hooks.hook('beforeResponse', ...)
BeforeResponse(r) ==
  /\ phase[r] = "open"
  /\ Len(hist[r]) <= MaxCallbacks
  /\ HooksAwaitExport => Pending = 0
  /\ \E response \in Responses, f \in FaultChoices :
       LET i == ctxSpan[r]
           out == IF HookSkips(i) THEN [threw |-> FALSE]
                  ELSE BeforeResponseBody(spans[i], response, f)
       IN /\ spans' = IF HookSkips(i) THEN spans ELSE [spans EXCEPT ![i] = out.span]
          /\ rejected' = [rejected EXCEPT ![r] = @ \/ TryCatch(out.threw)]
          /\ hist' = [hist EXCEPT ![r] = Append(@, Callback("beforeResponse", r, out.threw))]
          /\ last' = Delivered("beforeResponse", r, response.statusCode, Undefined,
                               out.threw)
  /\ ctxSpan' = [ctxSpan EXCEPT ![r] = SlotAfterFinalize(@)]
  /\ UNCHANGED <<pathReplacePattern, pathReplaceReplacement, req, phase,
               hasIsEnded, delivered, mayThrow>>

\* Mutants of ErrorBody: span.recordException(error) left out; span.end() left
\* out.
ErrorBodyUnrecorded(span, error, f) ==
  LET s2 == setStatus(span, "ERROR", error.message)
      s3 == end(s2)
  IN IF f = "setStatus" THEN [span |-> span, threw |-> TRUE]
     ELSE IF f = "end" THEN [span |-> s2, threw |-> TRUE]
     ELSE [span |-> s3, threw |-> FALSE]
ErrorBodyUnended(span, error, f) ==
  LET s1 == recordException(span, error)
      s2 == setStatus(s1, "ERROR", error.message)
  IN IF f = "recordException" THEN [span |-> span, threw |-> TRUE]
     ELSE IF f = "setStatus" THEN [span |-> s1, threw |-> TRUE]
     ELSE [span |-> s2, threw |-> FALSE]

\* The error hook's try block from recordException on.
ErrorBody(span, error, f) ==
  LET s1 == recordException(span, error)
      s2 == setStatus(s1, "ERROR", error.message)
      s3 == end(s2)
  IN IF f = "recordException" THEN [span |-> span, threw |-> TRUE]
     ELSE IF f = "setStatus" THEN [span |-> s1, threw |-> TRUE]
     ELSE IF f = "end" THEN [span |-> s2, threw |-> TRUE]
     ELSE [span |-> s3, threw |-> FALSE]

\* The error hook's second argument for a fault captured outside a request:
\* { event } with event undefined, or with an event that has no context.
EventsWithoutContext == {"noEvent", "noContext"}

\* Mutant of SpanOfEvent: without a request context the hook falls back to the
\* span the tracer started last.
SpanOfEventOrLatest(event) == IF event \in Reqs THEN ctxSpan[event] ELSE Len(spans)

\* const span = event?.context?.span: the slot of the request the event belongs
\* to, undefined where event or event.context is undefined.
SpanOfEvent(event) == IF event \in Reqs THEN ctxSpan[event] ELSE 0

\* nitroApp.hooks.hook('error', ...), delivered with the event of request r
Error(r) ==
  /\ phase[r] = "open"
  /\ Len(hist[r]) <= MaxCallbacks
  /\ HooksAwaitExport => Pending = 0
  /\ \E error \in Errors, f \in FaultChoices :
       LET i == SpanOfEvent(r)
           out == IF HookSkips(i) THEN [threw |-> FALSE]
                  ELSE ErrorBody(spans[i], error, f)
       IN /\ spans' = IF HookSkips(i) THEN spans ELSE [spans EXCEPT ![i] = out.span]
          /\ rejected' = [rejected EXCEPT ![r] = @ \/ TryCatch(out.threw)]
          /\ hist' = [hist EXCEPT ![r] = Append(@, Callback("error", r, out.threw))]
          /\ last' = Delivered("error", r, 0, error.message, out.threw)
  /\ ctxSpan' = [ctxSpan EXCEPT ![r] = SlotAfterFinalize(@)]
  /\ UNCHANGED <<pathReplacePattern, pathReplaceReplacement, req, phase,
               hasIsEnded, delivered, mayThrow>>

\* nitroApp.hooks.hook('error', ...), delivered without a request context. The
\* hook reads nothing but its second argument, so the step commutes with every
\* other; it is taken here while the slot of some request holds a span that has
\* not ended. The record of the callback holds the fault's message where the
\* hook got as far as reading it.
ErrorWithoutContext ==
  /\ \E r \in Reqs : ctxSpan[r] # 0 /\ ~spans[ctxSpan[r]].ended
  /\ \E event \in EventsWithoutContext, error \in Errors, f \in FaultChoices :
       LET i == SpanOfEvent(event)
           out == IF HookSkips(i) THEN [threw |-> FALSE]
                  ELSE ErrorBody(spans[i], error, f)
       IN /\ spans' = IF HookSkips(i) THEN spans ELSE [spans EXCEPT ![i] = out.span]
          /\ last' = [hook |-> "error", r |-> event, before |-> "NoSpan", slot |-> i,
                      statusCode |-> 0,
                      message |-> IF HookSkips(i) THEN Undefined ELSE error.message,
                      threw |-> out.threw]
  /\ UNCHANGED <<pathReplacePattern, pathReplaceReplacement, req, phase, ctxSpan, hist,
               rejected, hasIsEnded, delivered, mayThrow>>

\* Mutants of AfterResponseEnds: the negation dropped; the safety net left out.
AfterResponseEndsInverted(span) == isEndedQuery(span)
AfterResponseEndsNever(span) == FALSE

\* if (!span.isEnded?.()) span.end()
AfterResponseEnds(span) == ~isEndedQuery(span)

\* Mutants of SlotAfterCleanup: the delete left out; the delete in a finally
\* block.
SlotAfterCleanupKeeps(i, threw) == i
SlotAfterCleanupAlways(i, threw) == 0

\* delete event.context.span, reached unless span.end() threw
SlotAfterCleanup(i, threw) == IF threw THEN i ELSE 0

\* nitroApp.hooks.hook('afterResponse', ...)
AfterResponse(r) ==
  /\ phase[r] = "open"
  /\ HooksAwaitExport => Pending = 0
  /\ \E f \in FaultChoices :
       LET i == ctxSpan[r]
           ends == i # 0 /\ AfterResponseEnds(spans[i])
           threw == ends /\ f = "end"
       IN /\ spans' = IF ends /\ ~threw THEN [spans EXCEPT ![i] = end(spans[i])] ELSE spans
          /\ ctxSpan' = [ctxSpan EXCEPT ![r] = SlotAfterCleanup(i, threw)]
          /\ rejected' = [rejected EXCEPT ![r] = @ \/ TryCatch(threw)]
          /\ hist' = [hist EXCEPT ![r] = Append(@, Callback("afterResponse", r, threw))]
          /\ last' = Delivered("afterResponse", r, 0, Undefined, threw)
  /\ phase' = [phase EXCEPT ![r] = "done"]
  /\ UNCHANGED <<pathReplacePattern, pathReplaceReplacement, req, hasIsEnded, delivered,
               mayThrow>>

\* The span processor of the SDK hands the spans ended so far to the
\* OTLPTraceExporter, in the background and at a time of its own; a stalled or
\* failing exporter never takes this step. No hook reads or writes what the
\* exporter did, so the step commutes with every hook; it is taken here while no
\* request is between its request hook and its afterResponse hook.
Export ==
  /\ Pending > 0
  /\ \A r \in Reqs : phase[r] # "open"
  /\ delivered' = delivered + Pending
  /\ UNCHANGED <<pathReplacePattern, pathReplaceReplacement, req, phase, ctxSpan, spans,
               hist, last, rejected, hasIsEnded, mayThrow>>

Next ==
  \/ \E r \in Reqs :
       \/ Request(r)
       \/ BeforeResponse(r)
       \/ Error(r)
       \/ AfterResponse(r)
  \/ ErrorWithoutContext
  \/ Export

\* Two requests, with and without a traceparent; no call raises.
Spec == Init /\ [][Next]_vars

\* One request carrying any of the sample headers; no call raises.
SpecHeaders == InitHeaders /\ [][Next]_vars

\* One request; tracer and span calls may raise.
SpecFault == InitFault /\ [][Next]_vars

\* One request for any of the sample paths, under any of the sample rules.
SpecPaths == InitPaths /\ [][Next]_vars

\* One request for any of the sample paths, under an environment value that is
\* absent, not JSON, not an array of two, or holds an uncompilable pattern.
SpecNoRule == InitNoRule /\ [][Next]_vars

\* Two requests for one path under the locale rule.
SpecRule == InitRule /\ [][Next]_vars

\* ------------------------------------------------------------ claims

Count(log, op) == Cardinality({k \in DOMAIN log : log[k] = op})

MutatingCalls == {"setAttributes", "setStatus", "recordException"}

IsLowerHexString(x, n) ==
  /\ x # Undefined
  /\ Len(x) = n
  /\ \A k \in DOMAIN x : x[k] \in Range(HexLowerDigits)

\* A traceparent in the W3C format: four parts, a trace id of 32 and a parent id
\* of 16 lowercase hex characters, neither all zero, and flags of 2 hex characters.
ValidTraceparent(t) ==
  /\ t # Undefined
  /\ LET parts == Split(t, "-")
     IN /\ Len(parts) = 4
        /\ IsLowerHexString(parts[2], 32) /\ ~AllZero(parts[2])
        /\ IsLowerHexString(parts[3], 16) /\ ~AllZero(parts[3])
        /\ IsHexString(parts[4], 2)

\* A traceparent with one of the four defects: a wrong number of parts, a trace
\* id that is not 32 lowercase hex characters, a parent id that is not 16
\* lowercase hex characters, or flags that are not 2 hex characters.
DefectiveTraceparent(t) ==
  /\ t # Undefined
  /\ LET parts == Split(t, "-")
     IN \/ Len(parts) # 4
        \/ ~IsLowerHexString(parts[2], 32)
        \/ ~IsLowerHexString(parts[3], 16)
        \/ ~IsHexString(parts[4], 2)

C3_TraceIdFromHeader ==
  \A r \in Reqs :
    (phase[r] = "open" /\ ValidTraceparent(req[r].traceparent)) =>
      /\ ctxSpan[r] # 0
      /\ spans[ctxSpan[r]].traceId = Split(req[r].traceparent, "-")[2]
      /\ spans[ctxSpan[r]].parentSpanId = Split(req[r].traceparent, "-")[3]

\* C3 witness: the request-start of a request with the second sample header done.
C3_Witness ==
  /\ phase["A"] = "open"
  /\ req["A"].traceparent = TraceparentB
  /\ ctxSpan["A"] # 0
  /\ spans[ctxSpan["A"]].traceId = TraceIdB
  /\ spans[ctxSpan["A"]].parentSpanId = SpanIdB

\* C4: the plugin calls end() on a request's span at most once, with or without
\* the isEnded() query on the handle.
C4_AtMostOneEndCall ==
  \A i \in DOMAIN spans : Count(spans[i].log, "end") <= 1

\* C5: no fault raised by a tracer or span call inside a hook leaves the hook.
C5_NoFaultEscapes == \A r \in Reqs : ~rejected[r]

\* C5 witness: a request all of whose hooks have run, one of them with a call
\* that raised.
C5_Witness ==
  \E r \in Reqs :
    /\ phase[r] = "done"
    /\ \E k \in DOMAIN hist[r] : hist[r][k].threw
    /\ ~rejected[r]

\* C6: a defective traceparent is treated as absent: request-start starts no span
\* and stores nothing.
C6_DefectiveHeaderStartsNoSpan ==
  \A r \in Reqs :
    (phase[r] \in {"open", "done"} /\ DefectiveTraceparent(req[r].traceparent)) =>
      (SpansOf(r) = {} /\ ctxSpan[r] = 0)

\* C7: no callback of a request without a traceparent header starts a span,
\* calls a span, or stores anything in the request's slot.
C7_NoHeaderNoSpanCalls ==
  [][\A r \in Reqs :
       (req[r].traceparent = Undefined /\ hist'[r] # hist[r]) =>
         (spans' = spans /\ ctxSpan'[r] = 0)]_vars

\* C7 witness: a request without the header that has received request-start, two
\* further callbacks and after-response.
C7_Witness ==
  \E r \in Reqs :
    /\ req[r].traceparent = Undefined
    /\ phase[r] = "done"
    /\ Len(hist[r]) >= 4
    /\ SpansOf(r) = {}

\* C8: no setAttributes, setStatus or recordException is called on a span after
\* its end() has been called.
C8_NoMutatingCallAfterEnd ==
  \A i \in DOMAIN spans :
    \A j, k \in DOMAIN spans[i].log :
      (j < k /\ spans[i].log[j] = "end") => spans[i].log[k] \notin MutatingCalls

C10_StatusFromStatusCode ==
  /\ (last.hook = "beforeResponse" /\ last.before = "Active") =>
       LET span == spans[last.slot]
       IN /\ last.slot # 0
          /\ span.ended
          /\ last.statusCode >= 400 =>
               span.status = [code |-> "ERROR", message |-> HttpMessage(last.statusCode)]
          /\ last.statusCode < 400 => span.status.code = "OK"
  /\ \A i \in DOMAIN spans :
       LET h == hist[spans[i].owner]
       IN (/\ phase[spans[i].owner] = "done"
           /\ Len(h) = 3
           /\ h[2].hook = "beforeResponse"
           /\ spans[i].attributes.statusCode = 200) =>
            (spans[i].status.code = "OK" /\ spans[i].ended)

\* C10 witness: two completed requests, one answered with 400 and one with 200.
C10_Witness ==
  \E i, j \in DOMAIN spans :
    /\ phase[spans[i].owner] = "done" /\ phase[spans[j].owner] = "done"
    /\ spans[i].attributes.statusCode = 400
    /\ spans[i].status = [code |-> "ERROR", message |-> HttpMessage(400)]
    /\ spans[j].attributes.statusCode = 200
    /\ spans[j].status.code = "OK"
    /\ hist[spans[j].owner][2].hook = "beforeResponse"

\* C11: an on-error that finds the span active leaves it ended, with the fault
\* recorded as an exception and with status ERROR and the fault's own message.
C11_ErrorRecordsFault ==
  (last.hook = "error" /\ last.before = "Active") =>
    LET span == spans[last.slot]
    IN /\ last.slot # 0
       /\ span.ended
       /\ span.exceptions = <<last.message>>
       /\ span.status = [code |-> "ERROR", message |-> last.message]

\* C11 witness: an on-error with the fault "oops" has just ended an active span.
C11_Witness ==
  /\ last.hook = "error" /\ last.before = "Active"
  /\ last.message = Oops
  /\ spans[last.slot].ended
  /\ spans[last.slot].exceptions = <<Oops>>
  /\ spans[last.slot].status = [code |-> "ERROR", message |-> Oops]

C13_RequestsIsolated ==
  /\ [](\A r \in Reqs : ctxSpan[r] # 0 => spans[ctxSpan[r]].owner = r)
  /\ [][\A r \in Reqs :
          hist'[r] # hist[r] =>
            \A q \in Reqs \ {r} :
              /\ ctxSpan'[q] = ctxSpan[q]
              /\ hist'[q] = hist[q]
              /\ \A i \in SpansOf(q) : spans'[i] = spans[i]]_vars

\* C13 witness: both requests between request-start and after-response, each
\* with a span of its own in its slot, one span ended and the other still active.
C13_Witness ==
  /\ phase["A"] = "open" /\ phase["B"] = "open"
  /\ ctxSpan["A"] # 0 /\ ctxSpan["B"] # 0 /\ ctxSpan["A"] # ctxSpan["B"]
  /\ spans[ctxSpan["A"]].ended
  /\ ~spans[ctxSpan["B"]].ended
  /\ ctxSpan["B"] < ctxSpan["A"]


\* C14: under the rule ["^/(en|de|fr)/", "/:locale/"] the spans of requests for
\* /en/api/hash, /de/api/hash and /fr/api/hash all have the route
\* /:locale/api/hash and the same name, and the span of a request for
\* /es/api/hash has the route /es/api/hash.
C14_LocaleRule ==
  (pathReplacePattern.text = LocalePattern /\ pathReplaceReplacement = LocaleReplacement) =>
    \A i \in DOMAIN spans :
      LET path == req[spans[i].owner].path
      IN /\ path \in {PathEn, PathDe, PathFr} =>
              /\ spans[i].attributes.httpRoute = PathLocale
              /\ spans[i].name = Method \o <<" ">> \o PathLocale
         /\ path = PathEs =>
              /\ spans[i].attributes.httpRoute = PathEs
              /\ spans[i].name = Method \o <<" ">> \o PathEs

\* C14 witness: under the locale rule, a span started for /de/api/hash with the
\* route /:locale/api/hash.
C14_Witness ==
  /\ pathReplacePattern.text = LocalePattern
  /\ pathReplaceReplacement = LocaleReplacement
  /\ \E i \in DOMAIN spans :
       /\ req[spans[i].owner].path = PathDe
       /\ spans[i].attributes.httpRoute = PathLocale


\* The first match of a loaded pattern in path, at = 0 when there is none.
MatchOf(pattern, path) ==
  IF pattern.kind = "RegExp" THEN RegExpMatch(path, pattern)
  ELSE [at |-> IndexOf(path, pattern.text), len |-> Len(pattern.text)]

\* C15: for every path and every configured rule the route of the span is the
\* path with the pattern's match substituted by the replacement, and the route
\* equals the path exactly when no rule is configured or the pattern does not
\* match the path.
C15_SubstitutedUnlessNoMatch ==
  \A i \in DOMAIN spans :
    LET path == req[spans[i].owner].path
        route == spans[i].attributes.httpRoute
        configured == pathReplacePattern.kind # "null"
        m == MatchOf(pathReplacePattern, path)
    IN /\ (configured /\ m.at # 0) =>
            route = SubSeq(path, 1, m.at - 1) \o pathReplaceReplacement
                      \o SubSeq(path, m.at + m.len, Len(path))
       /\ (route = path) <=> (~configured \/ m.at = 0)


\* C16: every span started by request-start has the request's raw path as
\* url.path, the normalized path as http.route, and the method, a space and the
\* normalized path as its name, for every sample rule and every sample path.
C16_RawPathKept ==
  \A i \in DOMAIN spans :
    LET request == req[spans[i].owner]
    IN /\ spans[i].attributes.urlPath = request.path
       /\ spans[i].attributes.httpRoute = normalizePath(request.path)
       /\ spans[i].name = request.method \o <<" ">> \o normalizePath(request.path)

\* C16 witness: a span whose route differs from its url.path, under the rule
\* that replaces /api/internal/ by /api/.
C16_Witness ==
  \E i \in DOMAIN spans :
    /\ pathReplacePattern.text = InternalPattern
    /\ spans[i].attributes.urlPath = PathInternal
    /\ spans[i].attributes.httpRoute = <<"/", "a", "p", "i", "/", "u", "s", "e", "r", "s">>
    /\ spans[i].ended


\* The flags byte written as two lower-case hex digits, the traceparent format.
FlagsToHex(n) ==
  IF n = NaN THEN <<"N", "a", "N">>
  ELSE <<HexLowerDigits[((n \div 16) % 16) + 1], HexLowerDigits[(n % 16) + 1]>>

\* version-traceId-parentSpanId-flags from the version field of the header's
\* parts and the remote span context the request hook built.
Reserialize(version, ctx) ==
  Join(<<version, ctx.traceId, ctx.spanId, FlagsToHex(ctx.traceFlags)>>, "-")

\* C17 as stated: for every valid traceparent (flags of 2 hex characters of
\* either case), the version and the parsed remote span context re-serialize to
\* the header.
C17_RoundTrip ==
  \A i \in DOMAIN spans :
    LET header == req[spans[i].owner].traceparent
    IN ValidTraceparent(header) =>
         Reserialize(At(Split(header, "-"), 0), spans[i].parentContext) = header

\* C17 amended: the same for every valid traceparent whose flags field is in
\* lower-case hex.
C17_RoundTripLowerCaseFlags ==
  \A i \in DOMAIN spans :
    LET header == req[spans[i].owner].traceparent
    IN (ValidTraceparent(header) /\ IsLowerHexString(At(Split(header, "-"), 3), 2)) =>
         Reserialize(At(Split(header, "-"), 0), spans[i].parentContext) = header

\* C17 witness: a span started for the header with flags ff, whose parsed flags
\* are 255 and re-serialize to the header.
C17_Witness ==
  \E i \in DOMAIN spans :
    /\ req[spans[i].owner].traceparent = TraceparentFF
    /\ spans[i].parentContext.traceFlags = 255
    /\ Reserialize(Version00, spans[i].parentContext) = TraceparentFF


\* C18: the state of a request only moves forward, from NoSpan to Active and
\* from Active to Ended: no step takes it from Ended to Active, from Active to
\* NoSpan, from Ended to NoSpan, or from NoSpan to Ended directly.
C18_StateMovesForward ==
  [][\A r \in Reqs :
       <<StateOf(r), StateOf(r)'>> \in
         {<<"NoSpan", "NoSpan">>, <<"NoSpan", "Active">>, <<"Active", "Active">>,
          <<"Active", "Ended">>, <<"Ended", "Ended">>}]_vars

\* C18 witness: a completed request whose callbacks found it in NoSpan, then
\* Active, then Ended, and which is in Ended.
C18_Witness ==
  \E r \in Reqs :
    /\ phase[r] = "done"
    /\ Len(hist[r]) >= 3
    /\ hist[r][1].before = "NoSpan"
    /\ hist[r][2].before = "Active"
    /\ hist[r][3].before = "Ended"
    /\ StateOf(r) = "Ended"

\* C19: at most one span is started for one request.
C19_AtMostOneSpanPerRequest ==
  \A r \in Reqs : Cardinality(SpansOf(r)) <= 1

\* C19 witness: two completed requests, each with exactly one span, one of them
\* after four callbacks.
C19_Witness ==
  /\ \A r \in Reqs : phase[r] = "done" /\ Cardinality(SpansOf(r)) = 1
  /\ \E r \in Reqs : Len(hist[r]) = 4
  /\ Len(spans) = 2


\* C20: no callback changes the pattern or the replacement loaded at module
\* load, and two spans started for the same path at different times, in any
\* interleaving of two requests, have the same normalized route.
C20_RuleFixed ==
  /\ [](\A i, j \in DOMAIN spans :
          spans[i].attributes.urlPath = spans[j].attributes.urlPath =>
            /\ spans[i].attributes.httpRoute = spans[j].attributes.httpRoute
            /\ spans[i].name = spans[j].name)
  /\ [][/\ pathReplacePattern' = pathReplacePattern
        /\ pathReplaceReplacement' = pathReplaceReplacement]_vars

\* C20 witness: under the locale rule two requests for /en/api/hash have
\* completed after different numbers of callbacks, and both spans have the
\* route /:locale/api/hash.
C20_Witness ==
  /\ pathReplacePattern = LoadPathReplace(LocaleConfig).pattern
  /\ pathReplaceReplacement = LocaleReplacement
  /\ \A r \in Reqs : phase[r] = "done"
  /\ Len(spans) = 2
  /\ \A i \in DOMAIN spans : spans[i].attributes.httpRoute = PathLocale
  /\ Count(spans[1].log, "end") > Count(spans[2].log, "end")

\* C21: a configured pattern is a regular expression exactly when it begins
\* with ^ or contains one of . * + ? ^ $ { } ( ) | [ ] \ and a literal string
\* otherwise; under the rule ["/api/internal/", "/api/"] the span of
\* /api/internal/users has the route /api/users.
C21_RegexExactlyWithMetacharacter ==
  /\ pathReplacePattern.kind # "null" =>
       LET text == pathReplacePattern.text
           meta == \E k \in DOMAIN text :
                     text[k] \in {".", "*", "+", "?", "^", "$", "{", "}", "(", ")",
                                  "|", "[", "]", "\\"}
       IN /\ pathReplacePattern.kind = "RegExp" <=> (Head(text) = "^" \/ meta)
          /\ pathReplacePattern.kind = "string" <=> ~(Head(text) = "^" \/ meta)
  /\ (pathReplacePattern.text = InternalPattern
        /\ pathReplaceReplacement = InternalReplacement) =>
       \A i \in DOMAIN spans :
         req[spans[i].owner].path = PathInternal =>
           spans[i].attributes.httpRoute = PathUsers

\* C21 witness: under the literal rule, an ended span of /api/internal/users
\* with the route /api/users.
C21_Witness ==
  \E i \in DOMAIN spans :
    /\ pathReplacePattern.kind = "string"
    /\ pathReplacePattern.text = InternalPattern
    /\ req[spans[i].owner].path = PathInternal
    /\ spans[i].attributes.httpRoute = PathUsers
    /\ spans[i].ended

\* C22: for every span request-start creates, the traceFlags of the remote
\* parent context is an integer in 0..255, and equals the value of the header's
\* flags field where that field is 2 hex characters.
C22_TraceFlagsIsByte ==
  \A i \in DOMAIN spans :
    LET flags == At(Split(req[spans[i].owner].traceparent, "-"), 3)
        traceFlags == spans[i].parentContext.traceFlags
    IN /\ traceFlags \in 0..255
       /\ IsHexString(flags, 2) =>
            traceFlags = 16 * HexValue(flags[1]) + HexValue(flags[2])


\* C23: with an environment value that is absent, not valid JSON, not an array
\* of exactly 2 elements, or holds a pattern that does not compile, module load
\* completes, the request is served, no rule is configured, and every span's
\* route and name carry the request's path unchanged.
C23_NoRuleFromBadConfig ==
  /\ pathReplacePattern = NullPattern
  /\ pathReplaceReplacement = Undefined
  /\ phase["A"] # "none"
  /\ \A path \in {PathEn, PathInternal} : normalizePath(path) = path
  /\ \A i \in DOMAIN spans :
       /\ spans[i].attributes.httpRoute = req[spans[i].owner].path
       /\ spans[i].name = Method \o <<" ">> \o req[spans[i].owner].path

\* C23 witness: a completed request for /en/api/hash whose span has the route
\* /en/api/hash, no rule being configured.
C23_Witness ==
  /\ pathReplacePattern = NullPattern
  /\ phase["A"] = "done"
  /\ \E i \in DOMAIN spans :
       /\ req[spans[i].owner].path = PathEn
       /\ spans[i].attributes.httpRoute = PathEn
       /\ spans[i].ended


\* C24: the forwarded-header attributes of every span equal the headers the
\* request sent: the user agent, the request time and the client id.
C24_ForwardedHeadersFromRequest ==
  \A i \in DOMAIN spans :
    LET request == req[spans[i].owner]
    IN /\ spans[i].attributes.xUserAgent = request.userAgent
       /\ spans[i].attributes.xRequestTime = request.xRequestTime
       /\ spans[i].attributes.xClientId = request.xClientId


\* C25: no hook waits for the exporter: whenever a request is between its
\* request hook and its afterResponse hook, afterResponse can run to completion,
\* and so can beforeResponse and error, whatever the exporter has or has not
\* delivered.
C25_HooksNeverWaitForExporter ==
  \A r \in Reqs :
    phase[r] = "open" =>
      /\ ENABLED AfterResponse(r)
      /\ Len(hist[r]) <= MaxCallbacks =>
           (ENABLED BeforeResponse(r) /\ ENABLED Error(r))

\* C25 witness: a request has completed while its ended span is still waiting
\* for the exporter, which has delivered nothing.
C25_Witness ==
  /\ phase["A"] = "done"
  /\ delivered = 0
  /\ Pending > 0
  /\ \E i \in SpansOf("A") : spans[i].ended


\* C26: a span that on-error found active carries the attributes error and
\* error.type, besides the recorded exception and the ERROR status.
C26_ErrorAttributesSet ==
  \A i \in DOMAIN spans :
    (\E k \in DOMAIN hist[spans[i].owner] :
       /\ hist[spans[i].owner][k].hook = "error"
       /\ hist[spans[i].owner][k].before = "Active") =>
      /\ spans[i].exceptions # <<>>
      /\ spans[i].status.code = "ERROR"
      /\ spans[i].attributes.error # Undefined
      /\ spans[i].attributes.errorType # Undefined


C29_SlotKeptWhenEndRaises ==
  last.hook = "afterResponse" =>
    /\ ~rejected[last.r]
    /\ last.threw => (last.slot # 0 /\ ctxSpan[last.r] = last.slot)
    /\ ~last.threw => ctxSpan[last.r] = 0

\* C29 witness: an after-response found the span active, its end() call raised,
\* and the span is still in the slot, not ended.
C29_Witness ==
  /\ last.hook = "afterResponse" /\ last.threw
  /\ last.before = "Active"
  /\ ctxSpan[last.r] # 0
  /\ ~spans[ctxSpan[last.r]].ended
  /\ phase[last.r] = "done"


\* C30: the calls one callback makes on a span never include a setAttributes,
\* setStatus or recordException after an end(); a before-response that calls
\* end() has called setAttributes and setStatus before it, and an on-error that
\* calls end() has called recordException and setStatus before it.
C30_MutationsPrecedeEnd ==
  [][\A i \in DOMAIN spans :
       LET calls == SubSeq(spans'[i].log, Len(spans[i].log) + 1, Len(spans'[i].log))
           ends == {k \in DOMAIN calls : calls[k] = "end"}
       IN /\ \A j, k \in DOMAIN calls :
               (j < k /\ calls[j] = "end") => calls[k] \notin MutatingCalls
          /\ (last'.hook = "beforeResponse" /\ hist' # hist) =>
               \A e \in ends :
                 \E a, b \in 1..(e - 1) :
                   a < b /\ calls[a] = "setAttributes" /\ calls[b] = "setStatus"
          /\ (last'.hook = "error" /\ hist' # hist) =>
               \A e \in ends :
                 \E a, b \in 1..(e - 1) :
                   a < b /\ calls[a] = "recordException" /\ calls[b] = "setStatus"]_vars

\* C30 witness: a before-response has just made its calls on an active span, in
\* the order setAttributes, setStatus, end.
C30_Witness ==
  /\ last.hook = "beforeResponse" /\ last.before = "Active"
  /\ LET log == spans[last.slot].log
     IN \E a, b, e \in DOMAIN log :
          /\ a < b /\ b < e /\ e = Len(log)
          /\ log[a] = "setAttributes" /\ log[b] = "setStatus" /\ log[e] = "end"
  /\ spans[last.slot].ended



\* C31: before-response and on-error leave the request's slot as they found it,
\* whether or not a call in them raised: the slot holds the span the request hook
\* stored for this request until after-response runs, and the only step that
\* changes a non-empty slot is the request's own after-response, which empties it.
C31_FinalizersKeepSlot ==
  /\ [](\A r \in Reqs : ctxSpan[r] # 0 => (ctxSpan[r] \in DOMAIN spans
                                            /\ spans[ctxSpan[r]].owner = r))
  /\ [][\A r \in Reqs :
          /\ (hist'[r] # hist[r] /\ last'.hook \in {"beforeResponse", "error"}) =>
               ctxSpan'[r] = ctxSpan[r]
          /\ (ctxSpan[r] # 0 /\ ctxSpan'[r] # ctxSpan[r]) =>
               (last'.hook = "afterResponse" /\ last'.r = r /\ ctxSpan'[r] = 0)]_vars

\* C31 witness: a before-response ended the span, an on-error followed, and the
\* slot still holds the span the request hook stored.
C31_Witness ==
  /\ last.hook = "error" /\ last.before = "Ended"
  /\ \E k \in DOMAIN hist[last.r] :
       hist[last.r][k].hook = "beforeResponse" /\ hist[last.r][k].before = "Active"
  /\ phase[last.r] = "open"
  /\ ctxSpan[last.r] = last.slot /\ last.slot # 0
  /\ spans[last.slot].ended /\ spans[last.slot].owner = last.r



\* C32: under a rule that is applied (a pattern, literal or compiled, with a
\* non-empty replacement) the route differs from the path by one substitution:
\* the text before the first match and the text after it are kept as they were,
\* later matches of the pattern included, and the replacement stands once in
\* between.
C32_FirstMatchOnly ==
  \A i \in DOMAIN spans :
    LET path == req[spans[i].owner].path
        route == spans[i].attributes.httpRoute
        m == MatchOf(pathReplacePattern, path)
        tail == SubSeq(path, m.at + m.len, Len(path))
    IN (/\ pathReplacePattern.kind \in {"string", "RegExp"}
        /\ pathReplaceReplacement # <<>>
        /\ m.at # 0) =>
         /\ Len(route) = Len(path) - m.len + Len(pathReplaceReplacement)
         /\ SubSeq(route, 1, m.at - 1) = SubSeq(path, 1, m.at - 1)
         /\ SubSeq(route, m.at, m.at + Len(pathReplaceReplacement) - 1)
              = pathReplaceReplacement
         /\ SubSeq(route, Len(route) - Len(tail) + 1, Len(route)) = tail

\* C32 witness: the literal rule applied to a path that holds its pattern twice;
\* the route holds the pattern once, after the replacement.
C32_Witness ==
  \E i \in DOMAIN spans :
    /\ pathReplacePattern.kind = "string"
    /\ pathReplacePattern.text = InternalPattern
    /\ pathReplaceReplacement = InternalReplacement
    /\ req[spans[i].owner].path = PathTwoInternal
    /\ IndexOf(SubSeq(PathTwoInternal, Len(InternalPattern) + 1, Len(PathTwoInternal)),
               InternalPattern) # 0
    /\ spans[i].attributes.httpRoute = InternalReplacement \o <<"v", "1">> \o PathInternal

\* The same case for a compiled pattern: the second locale of the path is kept.
C32_WitnessRegExp ==
  \E i \in DOMAIN spans :
    /\ pathReplacePattern.kind = "RegExp" /\ ~pathReplacePattern.anchored
    /\ req[spans[i].owner].path = PathTwoLocales
    /\ MatchOf(pathReplacePattern, spans[i].attributes.httpRoute).at > 1
    /\ spans[i].attributes.httpRoute # PathTwoLocales



\* C33: with a rule whose replacement is the empty string, normalize returns
\* every path as it was given, and every span started under that rule has the
\* request's path as its route and in its name, also where the pattern matches
\* the path.
C33_EmptyReplacementInert ==
  (pathReplacePattern.kind # "null" /\ pathReplaceReplacement = <<>>) =>
    /\ \A path \in SamplePaths : normalizePath(path) = path
    /\ \A i \in DOMAIN spans :
         /\ spans[i].attributes.httpRoute = req[spans[i].owner].path
         /\ spans[i].name = req[spans[i].owner].method \o <<" ">> \o req[spans[i].owner].path

\* C33 witness: the rule ["/api/internal/", ""] is loaded, a span was started for
\* a path its pattern matches, and the route is that path.
C33_Witness ==
  \E i \in DOMAIN spans :
    /\ pathReplacePattern = StringPattern(InternalPattern)
    /\ pathReplaceReplacement = <<>>
    /\ req[spans[i].owner].path = PathInternal
    /\ MatchOf(pathReplacePattern, PathInternal).at # 0
    /\ spans[i].attributes.httpRoute = PathInternal



\* C34: an on-error delivered without an event, or with an event that has no
\* context, finds no span, makes no call on any span, raises nothing inside its
\* try block and rejects nothing: every span, every slot and every hook outcome
\* are after it what they were before.
C34_ErrorWithoutContextIsNoOp ==
  /\ [](last.r \in EventsWithoutContext => (last.slot = 0 /\ ~last.threw))
  /\ [][(last'.r \in EventsWithoutContext /\ last' # last) =>
          /\ spans' = spans
          /\ ctxSpan' = ctxSpan
          /\ rejected' = rejected
          /\ phase' = phase]_vars

\* C34 witness: an on-error without an event has just been delivered while the
\* request's span was active in its slot; the span is still active and no call
\* was made on it.
C34_Witness ==
  /\ last.hook = "error" /\ last.r = "noEvent"
  /\ \E r \in Reqs :
       /\ phase[r] = "open"
       /\ ctxSpan[r] # 0
       /\ ~spans[ctxSpan[r]].ended
       /\ spans[ctxSpan[r]].log = <<"spanContext">>
       /\ ~rejected[r]



\* C35: a before-response that finds an active span in the slot while the
\* response's status code is unset or 0 records the status code 200 on the span
\* and ends it with status OK, without a message.
C35_UnsetStatusCodeIs200 ==
  (/\ last.hook = "beforeResponse"
   /\ last.before = "Active"
   /\ last.slot # 0
   /\ last.statusCode = 0
   /\ ~last.threw) =>
    /\ spans[last.slot].attributes.statusCode = 200
    /\ spans[last.slot].status = [code |-> "OK", message |-> Undefined]
    /\ spans[last.slot].ended
    /\ spans[last.slot].exported = 1

\* C35 witness: a before-response read a response without a status code and
\* without headers, and left the request's span ended with 200 and OK.
C35_Witness ==
  /\ last.hook = "beforeResponse" /\ last.before = "Active" /\ last.statusCode = 0
  /\ last.slot # 0
  /\ spans[last.slot].attributes.statusCode = 200
  /\ spans[last.slot].attributes.contentType = Undefined
  /\ spans[last.slot].status.code = "OK"
  /\ spans[last.slot].ended
  /\ spans[last.slot].owner = last.r


====
